---- MODULE Spec2Model ----
(***************************************************************************)
(* Model of the frame-sequence-to-video pipeline of the multi-channel      *)
(* export addon (addon/operators/render.py): frame discovery               *)
(* (find_frames), staging (prepare_frames_for_ffmpeg), encoder discovery   *)
(* (check_ffmpeg), the channel run (create_video_with_ffmpeg) and the      *)
(* operators that drive it (RenderAllOperator.execute and the two          *)
(* single-channel operators).                                              *)
(*                                                                         *)
(* File names are sequences of one-character strings, so that globbing,    *)
(* the frame-number regular expression, os.path.splitext and the           *)
(* "%04d" formatting are computed on the characters as the code does.      *)
(***************************************************************************)
EXTENDS Integers, Sequences, FiniteSets, TLC

\* ------------------------------------------------------------------------
\* Bounds of the model
\* ------------------------------------------------------------------------

\* largest number of files in a frames directory (SpecFrames)
MaxFiles == 3

\* largest hold_frames value tried (the property allows 1..120)
MaxHold == 2

\* largest number of files in a frames directory of a channel run (Spec)
MaxRunFiles == 2

\* largest hold_frames value of a channel run (Spec)
MaxRunHold == 1

\* ------------------------------------------------------------------------
\* Characters and strings
\* ------------------------------------------------------------------------

Digits == {"0", "1", "2", "3", "4", "5", "6", "7", "8", "9"}

DigitVal(ch) ==
    CASE ch = "0" -> 0 [] ch = "1" -> 1 [] ch = "2" -> 2 [] ch = "3" -> 3
      [] ch = "4" -> 4 [] ch = "5" -> 5 [] ch = "6" -> 6 [] ch = "7" -> 7
      [] ch = "8" -> 8 [] ch = "9" -> 9

DigitChar(d) ==
    CASE d = 0 -> "0" [] d = 1 -> "1" [] d = 2 -> "2" [] d = 3 -> "3"
      [] d = 4 -> "4" [] d = 5 -> "5" [] d = 6 -> "6" [] d = 7 -> "7"
      [] d = 8 -> "8" [] d = 9 -> "9"

\* int("012") = 12
RECURSIVE ParseInt(_)
ParseInt(ds) ==
    IF ds = <<>> THEN 0
    ELSE 10 * ParseInt(SubSeq(ds, 1, Len(ds) - 1)) + DigitVal(ds[Len(ds)])

\* str(k) for k >= 0
RECURSIVE IntToStr(_)
IntToStr(k) ==
    IF k < 10 THEN <<DigitChar(k)>>
    ELSE IntToStr(k \div 10) \o <<DigitChar(k % 10)>>

RECURSIVE ZeroPad(_, _)
ZeroPad(ds, width) ==
    IF Len(ds) >= width THEN ds ELSE ZeroPad(<<"0">> \o ds, width)

\* f"{k:04d}"
Format04d(k) == ZeroPad(IntToStr(k), 4)

StartsWith(s, p) == Len(s) >= Len(p) /\ SubSeq(s, 1, Len(p)) = p

EndsWith(s, p) == Len(s) >= Len(p) /\ SubSeq(s, Len(s) - Len(p) + 1, Len(s)) = p

\* position of the last "." of a name that is not one of its leading dots,
\* 0 when there is none
LastDot(name) ==
    LET dots == {i \in 2..Len(name) :
                    name[i] = "." /\ \E j \in 1..(i - 1) : name[j] # "."}
    IN IF dots = {} THEN 0 ELSE CHOOSE i \in dots : \A j \in dots : j <= i

\* os.path.splitext(name) = <<root, ext>>, ext with its leading dot
splitext(name) ==
    IF LastDot(name) = 0 THEN <<name, <<>>>>
    ELSE <<SubSeq(name, 1, LastDot(name) - 1),
           SubSeq(name, LastDot(name), Len(name))>>

\* ------------------------------------------------------------------------
\* Frame numbers: re.search(r'_(\d+)\.', basename)
\* ------------------------------------------------------------------------

\* end of the maximal run of digits that starts at position i (i - 1 if none)
RECURSIVE DigitRunEnd(_, _)
DigitRunEnd(name, i) ==
    IF i <= Len(name) /\ name[i] \in Digits
    THEN DigitRunEnd(name, i + 1) ELSE i - 1

\* the pattern _(\d+)\. matches at position i
MatchAt(name, i) ==
    /\ name[i] = "_"
    /\ DigitRunEnd(name, i + 1) >= i + 1
    /\ DigitRunEnd(name, i + 1) + 1 <= Len(name)
    /\ name[DigitRunEnd(name, i + 1) + 1] = "."

MatchPositions(name) == {i \in 1..Len(name) : MatchAt(name, i)}

\* re.search scans from the left: the match is the leftmost one
SearchPos(name) ==
    CHOOSE i \in MatchPositions(name) : \A j \in MatchPositions(name) : i <= j

\* match.group(1) of the search, <<>> when there is no match
FrameNumStr(name) ==
    IF MatchPositions(name) = {} THEN <<>>
    ELSE SubSeq(name, SearchPos(name) + 1,
                DigitRunEnd(name, SearchPos(name) + 1))

\* os.path.basename(filepath): a path is a directory and a file name
basename(filepath) == filepath.name

get_frame_number(filepath) ==
    IF MatchPositions(basename(filepath)) = {} THEN 0
    ELSE ParseInt(FrameNumStr(basename(filepath)))

\* ------------------------------------------------------------------------
\* find_frames
\* ------------------------------------------------------------------------

\* the extensions of the glob patterns, in the order of the patterns list
Extensions ==
    << <<"p","n","g">>, <<"j","p","g">>, <<"j","p","e","g">>,
       <<"e","x","r">>, <<"t","i","f">>, <<"t","i","f","f">> >>

\* fnmatch(name, f"{blend_filename}_*.{ext}")
GlobMatch(name, blend_filename, ext) ==
    /\ StartsWith(name, blend_filename \o <<"_">>)
    /\ EndsWith(name, <<".">> \o ext)
    /\ Len(name) >= Len(blend_filename) + 1 + 1 + Len(ext)

\* glob.glob(pattern): the matching files, in the order of the listing
RECURSIVE Glob(_, _, _)
Glob(listing, blend_filename, ext) ==
    IF listing = <<>> THEN <<>>
    ELSE (IF GlobMatch(Head(listing), blend_filename, ext)
          THEN <<[dir |-> "frames", name |-> Head(listing)]>> ELSE <<>>)
         \o Glob(Tail(listing), blend_filename, ext)

\* all_frames after the loop over the patterns
RECURSIVE AllFrames(_, _, _)
AllFrames(listing, blend_filename, k) ==
    IF k > Len(Extensions) THEN <<>>
    ELSE Glob(listing, blend_filename, Extensions[k])
         \o AllFrames(listing, blend_filename, k + 1)

RECURSIVE InsertByKey(_, _)

\* an insertion that puts a frame before the frames of equal key
InsertByKeyBeforeEqual(sorted, x) ==
    IF sorted = <<>> THEN <<x>>
    ELSE IF get_frame_number(sorted[Len(sorted)]) < get_frame_number(x)
         THEN Append(sorted, x)
         ELSE Append(InsertByKey(SubSeq(sorted, 1, Len(sorted) - 1), x),
                     sorted[Len(sorted)])

\* list.sort(key=get_frame_number): stable, ascending by key
InsertByKey(sorted, x) ==
    IF sorted = <<>> THEN <<x>>
    ELSE IF get_frame_number(sorted[Len(sorted)]) <= get_frame_number(x)
         THEN Append(sorted, x)
         ELSE Append(InsertByKey(SubSeq(sorted, 1, Len(sorted) - 1), x),
                     sorted[Len(sorted)])

RECURSIVE SortFrames(_)
SortFrames(fs) ==
    IF fs = <<>> THEN <<>>
    ELSE InsertByKey(SortFrames(SubSeq(fs, 1, Len(fs) - 1)), fs[Len(fs)])

\* a scan that returns every file of the directory, matching or not
find_frames_unfiltered(dir, blend_filename) ==
    IF ~dir.exists THEN <<>>
    ELSE SortFrames([i \in 1..Len(dir.listing) |->
                        [dir |-> "frames", name |-> dir.listing[i]]])

\* find_frames(frames_dir, blend_filename).  A frames directory is a record:
\* whether it exists, and its listing in the order the filesystem returns it
find_frames(dir, blend_filename) ==
    IF ~dir.exists THEN <<>>
    ELSE SortFrames(AllFrames(dir.listing, blend_filename, 1))

\* ------------------------------------------------------------------------
\* prepare_frames_for_ffmpeg
\* ------------------------------------------------------------------------

\* f"frame_{k:04d}{ext}"
StagedName(k, ext) == <<"f","r","a","m","e","_">> \o Format04d(k) \o ext

Reverse(s) == [i \in 1..Len(s) |-> s[Len(s) + 1 - i]]

\* the frame copied by range(n) iterations of a hold loop
Repeat(x, n) == [i \in 1..n |-> x]

\* one copy loop of the loop branch: each source is copied to
\* frame_{total_frames+1} and total_frames is incremented
RECURSIVE CopyEach(_, _, _)
CopyEach(srcs, total, ext) ==
    IF srcs = <<>> THEN <<>>
    ELSE <<[name |-> StagedName(total + 1, ext), src |-> Head(srcs)]>>
         \o CopyEach(Tail(srcs), total + 1, ext)

\* a forward branch that numbers the staged files from 0
ForwardCopiesZeroBased(frames, ext) ==
    [k \in 1..Len(frames) |->
        [name |-> StagedName(k - 1, ext), src |-> frames[k]]]

\* the copies of the simple forward branch: enumerate(frames) gives the
\* 0-based i of the code, the name is frame_{i+1}
ForwardCopies(frames, ext) ==
    [k \in 1..Len(frames) |->
        [name |-> StagedName((k - 1) + 1, ext), src |-> frames[k]]]

\* a reverse pass that does not repeat the last frame
ReversePassSkipLast(frames) == Reverse(SubSeq(frames, 1, Len(frames) - 1))

\* 3. Reverse animation: the sources of the reverse pass
ReversePass(frames) == Reverse(frames)

\* a loop branch whose second hold repeats the last frame
LoopCopiesHoldLastTwice(frames, ext, hold) ==
    LET fwd   == CopyEach(frames, 0, ext)
        hold1 == CopyEach(Repeat(frames[Len(frames)], hold), Len(fwd), ext)
        rev   == CopyEach(ReversePass(frames), Len(fwd) + Len(hold1), ext)
        hold2 == CopyEach(Repeat(frames[Len(frames)], hold),
                          Len(fwd) + Len(hold1) + Len(rev), ext)
    IN fwd \o hold1 \o rev \o hold2

\* the copies of the loop branch: forward, hold last, reverse, hold first
LoopCopies(frames, ext, hold) ==
    LET fwd   == CopyEach(frames, 0, ext)
        hold1 == CopyEach(Repeat(frames[Len(frames)], hold), Len(fwd), ext)
        rev   == CopyEach(ReversePass(frames), Len(fwd) + Len(hold1), ext)
        hold2 == CopyEach(Repeat(frames[1], hold),
                          Len(fwd) + Len(hold1) + Len(rev), ext)
    IN fwd \o hold1 \o rev \o hold2

\* a guard that forgets the frame count
SimpleForwardLoopOnly(loop, frame_count) == ~loop

\* the guard of the simple forward branch
SimpleForward(loop, frame_count) == ~loop \/ frame_count <= 1

\* prepare_frames_for_ffmpeg(frames, temp_dir, loop, hold_frames) when no
\* copy raises: the copies made, in order, and the returned count
prepare_frames_for_ffmpeg(frames, loop, hold) ==
    IF Len(frames) = 0 THEN [copies |-> <<>>, ret |-> 0]
    ELSE LET ext == splitext(basename(frames[1]))[2]
         IN IF SimpleForward(loop, Len(frames))
            THEN [copies |-> ForwardCopies(frames, ext), ret |-> Len(frames)]
            ELSE [copies |-> LoopCopies(frames, ext, hold),
                  ret |-> Len(LoopCopies(frames, ext, hold))]

\* a directory without files
EmptyDir == [n \in {} |-> [dir |-> "frames", name |-> <<>>]]

\* shutil.copy2(src, os.path.join(temp_dir, name)): creates or overwrites
CopyInto(files, c) ==
    [n \in DOMAIN files \cup {c.name} |-> IF n = c.name THEN c.src ELSE files[n]]

\* the files of the staging directory after the copies, made in order
RECURSIVE ApplyCopies(_, _)
ApplyCopies(files, cs) ==
    IF cs = <<>> THEN files
    ELSE ApplyCopies(CopyInto(files, Head(cs)), Tail(cs))

\* ------------------------------------------------------------------------
\* check_ffmpeg
\* ------------------------------------------------------------------------

mac_ffmpeg_paths ==
    << "/usr/local/bin/ffmpeg", "/opt/homebrew/bin/ffmpeg", "/usr/bin/ffmpeg",
       "/Applications/FFmpeg/bin/ffmpeg", "~/bin/ffmpeg", "~/.local/bin/ffmpeg" >>

windows_ffmpeg_paths ==
    << "C:\\Program Files\\FFmpeg\\bin\\ffmpeg.exe", "C:\\FFmpeg\\bin\\ffmpeg.exe" >>

\* the direct paths tried on a platform
ffmpeg_paths(platform) ==
    IF platform = "darwin" THEN mac_ffmpeg_paths
    ELSE IF platform = "win32" THEN windows_ffmpeg_paths
    ELSE <<>>

\* the path printed by 'which ffmpeg' when it finds one
WhichPath == "/snap/bin/ffmpeg"

\* discovery said there is no encoder
NotFound(probes) == [found |-> FALSE, path |-> "", probes |-> probes]

\* discovery selected a location; self.ffmpeg_path is set to it
Found(path, probes) == [found |-> TRUE, path |-> path, probes |-> probes]

\* An environment tells, for each location, what running it does:
\*   known[p]  "missing" (os.path.exists is false), "ok" (-version exits 0),
\*             "broken" (-version exits nonzero), "raises" (cannot be run)
\*   path      what ['ffmpeg', '-version'] does: "ok", "broken",
\*             "notfound" (FileNotFoundError), "raises" (another exception)
\*   which     what ['which', 'ffmpeg'] does: "found" (prints WhichPath),
\*             "none" (nonzero exit or no output), "raises"
\*   verify    what [WhichPath, '-version'] does: "ok", "broken", "raises"
\* A probe is the command run and what it did.

\* 'which' resolution, the last resort
CheckWhich(platform, env, probes) ==
    IF platform = "win32" THEN NotFound(probes)
    ELSE LET p1 == Append(probes, [cmd |-> <<"which", "ffmpeg">>,
                                   outcome |-> env.which])
             p2 == Append(p1, [cmd |-> <<WhichPath, "-version">>,
                               outcome |-> env.verify])
         IN IF env.which # "found" THEN NotFound(p1)
            ELSE IF env.verify = "ok" THEN Found(WhichPath, p2)
            ELSE NotFound(p2)

\* the command name resolved through PATH, then 'which'
CheckPath(platform, env, probes) ==
    LET p1 == Append(probes, [cmd |-> <<"ffmpeg", "-version">>,
                              outcome |-> env.path])
    IN IF env.path = "ok" THEN Found("ffmpeg", p1)
       ELSE IF env.path = "raises" THEN NotFound(p1)
       ELSE CheckWhich(platform, env, p1)

\* the loop over the direct paths, then the other strategies
RECURSIVE CheckPaths(_, _, _, _)
CheckPaths(paths, platform, env, probes) ==
    IF paths = <<>> THEN CheckPath(platform, env, probes)
    ELSE IF env.known[Head(paths)] = "missing"
         THEN CheckPaths(Tail(paths), platform, env, probes)
         ELSE LET p1 == Append(probes, [cmd |-> <<Head(paths), "-version">>,
                                        outcome |-> env.known[Head(paths)]])
              IN IF env.known[Head(paths)] = "ok" THEN Found(Head(paths), p1)
                 ELSE IF env.known[Head(paths)] = "raises" THEN NotFound(p1)
                 ELSE CheckPaths(Tail(paths), platform, env, p1)

check_ffmpeg(platform, env) == CheckPaths(ffmpeg_paths(platform), platform, env, <<>>)

\* ------------------------------------------------------------------------
\* convert_exr_to_png
\* ------------------------------------------------------------------------

\* os.path.join(png_dir, f"{blend_filename}_{frame_num}.png")
PngPath(blend_filename, frame_num) ==
    [dir |-> "png_temp",
     name |-> blend_filename \o <<"_">> \o frame_num \o <<".","p","n","g">>]

\* the loop over the EXR frames from frame i on.  pngs: the files of the PNG
\* directory; outcome[i]: what loading and saving frame i does ("ok",
\* "load_error", "save_error"); png_frames and converted accumulate the
\* returned list and the frames that were converted by this call.
RECURSIVE ConvertLoop(_, _, _, _, _, _, _)

\* a loop that ends at the first frame that cannot be loaded or saved
ConvertLoopAbort(exr_frames, i, blend_filename, pngs, outcome, png_frames, converted) ==
    IF i > Len(exr_frames)
    THEN [png_frames |-> png_frames, pngs |-> pngs, converted |-> converted]
    ELSE LET name == basename(exr_frames[i])
             png  == PngPath(blend_filename, FrameNumStr(name))
         IN IF MatchPositions(name) = {}
            THEN ConvertLoop(exr_frames, i + 1, blend_filename, pngs, outcome,
                             png_frames, converted)
            ELSE IF png.name \in pngs
            THEN ConvertLoop(exr_frames, i + 1, blend_filename, pngs, outcome,
                             Append(png_frames, png), converted)
            ELSE IF outcome[i] # "ok"
            THEN [png_frames |-> png_frames, pngs |-> pngs, converted |-> converted]
            ELSE ConvertLoop(exr_frames, i + 1, blend_filename,
                             pngs \cup {png.name}, outcome,
                             Append(png_frames, png),
                             Append(converted, exr_frames[i]))

ConvertLoop(exr_frames, i, blend_filename, pngs, outcome, png_frames, converted) ==
    IF i > Len(exr_frames)
    THEN [png_frames |-> png_frames, pngs |-> pngs, converted |-> converted]
    ELSE LET name == basename(exr_frames[i])
             png  == PngPath(blend_filename, FrameNumStr(name))
         IN IF MatchPositions(name) = {}
            THEN ConvertLoop(exr_frames, i + 1, blend_filename, pngs, outcome,
                             png_frames, converted)
            ELSE IF png.name \in pngs
            THEN ConvertLoop(exr_frames, i + 1, blend_filename, pngs, outcome,
                             Append(png_frames, png), converted)
            ELSE IF outcome[i] # "ok"
            THEN ConvertLoop(exr_frames, i + 1, blend_filename, pngs, outcome,
                             png_frames, converted)
            ELSE ConvertLoop(exr_frames, i + 1, blend_filename,
                             pngs \cup {png.name}, outcome,
                             Append(png_frames, png),
                             Append(converted, exr_frames[i]))

\* convert_exr_to_png(frames_dir, blend_filename); exr_frames is what its
\* own call of find_frames(frames_dir, blend_filename) returns
convert_exr_to_png(exr_frames, blend_filename, pngs, outcome) ==
    ConvertLoop(exr_frames, 1, blend_filename, pngs, outcome, <<>>, <<>>)

\* ------------------------------------------------------------------------
\* create_video_with_ffmpeg: helpers
\* ------------------------------------------------------------------------

\* is_exr = ext.lower() == '.exr' for the first frame
is_exr(original_frames) ==
    splitext(basename(original_frames[1]))[2] = <<".","e","x","r">>

\* a choice that never goes back to the original frames
FramesToStageConvertedOnly(original, png_frames) == png_frames

\* 'frames = original_frames' and 'if png_frames and len(png_frames) > 0:
\* frames = png_frames': the frames that are staged after a conversion
FramesToStage(original, png_frames) ==
    IF Len(png_frames) > 0 THEN png_frames ELSE original

\* "Determine quality settings": codec, crf, pixel format, preset
QualitySettingsSwapped(quality) ==
    IF quality = "high"
    THEN [codec |-> "libx264", crf |-> "23", pix_fmt |-> "yuv420p", preset |-> "medium"]
    ELSE IF quality = "medium"
    THEN [codec |-> "libx264", crf |-> "18", pix_fmt |-> "yuv420p", preset |-> "slow"]
    ELSE [codec |-> "libx264", crf |-> "28", pix_fmt |-> "yuv420p", preset |-> "fast"]

QualitySettings(quality) ==
    IF quality = "high"
    THEN [codec |-> "libx264", crf |-> "18", pix_fmt |-> "yuv420p", preset |-> "slow"]
    ELSE IF quality = "medium"
    THEN [codec |-> "libx264", crf |-> "23", pix_fmt |-> "yuv420p", preset |-> "medium"]
    ELSE [codec |-> "libx264", crf |-> "28", pix_fmt |-> "yuv420p", preset |-> "fast"]

\* the FFmpeg command line; frame_ext is the extension of a staged file
FfmpegCmd(ffmpeg_command, fps, frame_ext, settings, output_file) ==
    [exe       |-> ffmpeg_command,
     framerate |-> IntToStr(fps),
     input     |-> [dir |-> "temp_dir",
                    name |-> <<"f","r","a","m","e","_","%","0","4","d">> \o frame_ext],
     codec     |-> settings.codec,
     preset    |-> settings.preset,
     crf       |-> settings.crf,
     pix_fmt   |-> settings.pix_fmt,
     output    |-> output_file]

\* a TemporaryDirectory that is not removed when its block is left
LeaveTempDirBehind(dir) == dir

\* leaving the 'with tempfile.TemporaryDirectory()' block removes the
\* directory and its files
ExitTempDir(dir) == [exists |-> FALSE, files |-> EmptyDir]

\* the guard 'if not original_frames'
NoFrames(original) == Len(original) = 0

\* a channel that reports success when there is no frame
NoFramesSuccess(dir) ==
    [ret |-> TRUE,
     report |-> [level |-> "WARNING", msg |-> "No frames found in frames_dir"]]

\* what the channel does when there is no frame: a warning, return False
NoFramesResult(dir) ==
    [ret |-> FALSE,
     report |-> [level |-> "WARNING", msg |-> "No frames found in frames_dir"]]

\* a guard that goes on when discovery failed
CheckFailedIgnored(check) == FALSE

\* the guard 'if not self.check_ffmpeg()'
CheckFailed(check) == ~check.found

\* ------------------------------------------------------------------------
\* State
\* ------------------------------------------------------------------------

VARIABLES
    pc,                 \* position of the operator / of the call
    blend_filename,     \* base name of the saved .blend file
    frames_dir,         \* the frames directory read by the current call
    loop_extend_frames, \* loop setting of the control scene
    hold_frames,        \* hold setting of the control scene
    original_frames,    \* result of find_frames
    temp_dir,           \* staging directory: [exists, files]
    copies,             \* copies made into the staging directory, in order
    total_frames,       \* value returned by prepare_frames_for_ffmpeg
    op,                 \* the operator that executes
    platform,           \* sys.platform
    blend_filepath,     \* bpy.data.filepath, <<>> when the file is not saved
    chan,               \* channel of the current create_video_with_ffmpeg call
    call,               \* its arguments fps, quality, crf
    ffmpeg_path,        \* self.ffmpeg_path, "" while the attribute is not set
    probes,             \* subprocesses run by check_ffmpeg in the current call
    frames,             \* the frames that are staged (original or converted)
    png_dir,            \* names of the files of the PNG conversion directory
    conversions,        \* frames converted by the current call
    encodes,            \* encoder subprocesses run by the current call
    reports,            \* self.report messages of the current call
    trace,              \* stages the current call went through, in order
    ret,                \* return value of the call that returned last
    results,            \* channel and return value of each returned call
    result,             \* what execute returned: FINISHED, CANCELLED; RAISED
                        \* when an exception left it; "" while it runs
    processed_files,    \* BlenderProcessQueue.processed_files
    processing_files,   \* BlenderProcessQueue.processing_files
    processed_log,      \* the file processed_files.json: [exists, readable, files]
    input_files,        \* the .blend files of the input directory
    pending,            \* the list run iterates over, what is left of it
    last_outcome,       \* for each file, how its latest process_file call of
                        \* this process ended, "none" when it had none
    marked              \* the files process_file ever added to processed_files

framesVars == <<blend_filename, frames_dir, loop_extend_frames, hold_frames,
                original_frames, temp_dir, copies, total_frames>>

runVars == <<op, platform, blend_filepath, chan, call, ffmpeg_path, probes,
             frames, png_dir, conversions, encodes, reports, trace, ret,
             results, result>>

queueVars == <<processed_files, processing_files, processed_log, input_files,
               pending, last_outcome, marked>>

vars == <<pc, framesVars, runVars, queueVars>>

\* ------------------------------------------------------------------------
\* Inputs
\* ------------------------------------------------------------------------

\* base names of .blend files; the second contains "_<digits>."
BlendNames == { <<"c">>, <<"c","_","1",".","v">> }

\* files a frames directory may hold
FrameFiles ==
    { <<"c","_","1",".","p","n","g">>,
      <<"c","_","2",".","p","n","g">>,
      <<"c","_","1","0",".","p","n","g">>,
      <<"c","_","2",".","j","p","g">>,
      <<"c","_","1",".","e","x","r">>,
      <<"c","_","x",".","p","n","g">>,
      <<"c","_","y",".","j","p","g">>,
      <<"d","_","1",".","p","n","g">>,
      <<"c","_","1",".","v","_","2",".","p","n","g">>,
      <<"c","_","1",".","v","_","3",".","p","n","g">> }

\* the sequences without repetition over S of length at most n
InjectiveSeqs(S, n) ==
    UNION { { s \in [1..k -> S] : \A i, j \in 1..k : i # j => s[i] # s[j] }
            : k \in 0..n }

\* the arguments of a call while no call is made
NoCall == [fps |-> 0, quality |-> "", crf |-> 0]

\* the .blend files an input directory of the queue may hold
QueueFiles == {"a.blend", "b.blend"}

\* the file processed_files.json when it does not exist
NoLog == [exists |-> FALSE, readable |-> FALSE, files |-> {}]

\* no queue runs
QueueIdle ==
    /\ processed_files = {}
    /\ processing_files = {}
    /\ processed_log = NoLog
    /\ input_files = {}
    /\ pending = <<>>
    /\ last_outcome = [f \in QueueFiles |-> "none"]
    /\ marked = {}

\* the directories of the frames specification
FrameDirs ==
    { [exists |-> FALSE, listing |-> <<>>] }
    \cup { [exists |-> TRUE, listing |-> l] : l \in InjectiveSeqs(FrameFiles, MaxFiles) }

\* ------------------------------------------------------------------------
\* SpecFrames: find_frames and prepare_frames_for_ffmpeg applied to inputs
\* ------------------------------------------------------------------------

InitFrames ==
    /\ QueueIdle
    /\ pc = "frames_call"
    /\ blend_filename \in BlendNames
    /\ frames_dir \in FrameDirs
    /\ loop_extend_frames = FALSE
    /\ hold_frames = 1
    /\ original_frames = <<>>
    /\ temp_dir = [exists |-> FALSE, files |-> EmptyDir]
    /\ copies = <<>>
    /\ total_frames = 0
    /\ op = "find_frames"
    /\ platform = "linux"
    /\ blend_filepath = <<>>
    /\ chan = ""
    /\ call = NoCall
    /\ ffmpeg_path = ""
    /\ probes = <<>>
    /\ frames = <<>>
    /\ png_dir = {}
    /\ conversions = <<>>
    /\ encodes = <<>>
    /\ reports = {}
    /\ trace = <<>>
    /\ ret = FALSE
    /\ results = <<>>
    /\ result = ""

\* original_frames = self.find_frames(frames_dir, blend_filename)
FramesLocate ==
    /\ pc = "frames_call"
    /\ original_frames' = find_frames(frames_dir, blend_filename)
    /\ pc' = "frames_found"
    /\ UNCHANGED <<blend_filename, frames_dir, loop_extend_frames, hold_frames,
                   temp_dir, copies, total_frames, runVars>>
    /\ UNCHANGED queueVars

\* prepare_frames_for_ffmpeg(original_frames, temp_dir, loop, hold) into a
\* fresh directory, every copy succeeding
FramesStage ==
    /\ pc = "frames_found"
    /\ \E l \in BOOLEAN, h \in 1..MaxHold :
        LET r == prepare_frames_for_ffmpeg(original_frames, l, h)
        IN /\ loop_extend_frames' = l
           /\ hold_frames' = h
           /\ copies' = r.copies
           /\ temp_dir' = [exists |-> TRUE,
                           files |-> ApplyCopies(EmptyDir, r.copies)]
           /\ total_frames' = r.ret
    /\ pc' = "frames_staged"
    /\ UNCHANGED <<blend_filename, frames_dir, original_frames, runVars>>
    /\ UNCHANGED queueVars

\* the same call when the k-th shutil.copy2 raises: the copies before it
\* are in the directory and the call does not return
FramesStageRaise ==
    /\ pc = "frames_found"
    /\ \E l \in BOOLEAN, h \in 1..MaxHold :
        LET r == prepare_frames_for_ffmpeg(original_frames, l, h)
        IN \E k \in 1..Len(r.copies) :
            /\ loop_extend_frames' = l
            /\ hold_frames' = h
            /\ copies' = SubSeq(r.copies, 1, k - 1)
            /\ temp_dir' = [exists |-> TRUE,
                            files |-> ApplyCopies(EmptyDir,
                                                  SubSeq(r.copies, 1, k - 1))]
    /\ pc' = "frames_raised"
    /\ UNCHANGED <<blend_filename, frames_dir, original_frames, total_frames,
                   runVars>>
    /\ UNCHANGED queueVars

NextFrames == FramesLocate \/ FramesStage \/ FramesStageRaise

SpecFrames == InitFrames /\ [][NextFrames]_vars

\* ------------------------------------------------------------------------
\* Spec: the operators and the channel run create_video_with_ffmpeg
\* ------------------------------------------------------------------------

Operators == {"render_all", "render_mobile", "render_desktop"}

Platforms == {"darwin", "win32", "linux"}

Qualities == {"high", "medium", "low"}

\* scene.render.fps of the channel scenes
SceneFps == {24}

\* custom_fps of the single-channel operators, 0 = use the scene's
CustomFps == {0, 30}

\* custom_crf of the single-channel operators, default 23
CustomCrf == {23, 30}

\* bpy.data.filepath: not saved, or c.blend
RunBlendFiles == { <<>>, <<"c",".","b","l","e","n","d">> }

\* files a frames directory of a channel run may hold
RunFiles ==
    { <<"c","_","1",".","p","n","g">>,
      <<"c","_","2",".","p","n","g">>,
      <<"c","_","2",".","j","p","g">>,
      <<"c","_","1",".","e","x","r">> }

RunDirs ==
    { [exists |-> FALSE, listing |-> <<>>] }
    \cup { [exists |-> TRUE, listing |-> l] : l \in InjectiveSeqs(RunFiles, MaxRunFiles) }

AllKnownPaths ==
    { mac_ffmpeg_paths[i] : i \in 1..Len(mac_ffmpeg_paths) }
    \cup { windows_ffmpeg_paths[i] : i \in 1..Len(windows_ffmpeg_paths) }

\* environments of a channel run: the first direct path of the platform,
\* PATH, which, the verification of the path which prints
RunEnvCases ==
    { <<"ok", "ok", "none", "ok">>,
      <<"broken", "notfound", "found", "ok">>,
      <<"missing", "notfound", "none", "ok">>,
      <<"raises", "broken", "found", "broken">> }

RunEnvs ==
    { [known  |-> [p \in AllKnownPaths |->
                     IF p \in {mac_ffmpeg_paths[1], windows_ffmpeg_paths[1]}
                     THEN c[1] ELSE "missing"],
       path   |-> c[2],
       which  |-> c[3],
       verify |-> c[4]] : c \in RunEnvCases }

\* outcomes of loading and saving one frame in the conversion
ConvertOutcomes == {"ok", "load_error", "save_error"}

\* outcomes of the encoder subprocess: exit code 0 with or without the
\* output file, nonzero exit code, subprocess.run raising
EncodeOutcomes == {"exit0_file", "exit0_nofile", "exit_nonzero", "raises"}

\* the channel(s) of an operator, in the order of the calls
ChannelsOf(o) ==
    IF o = "render_all" THEN <<"mobile", "desktop">>
    ELSE IF o = "render_mobile" THEN <<"mobile">>
    ELSE <<"desktop">>

\* the arguments an operator passes to create_video_with_ffmpeg
CallArgs(o) ==
    IF o = "render_all"
    THEN { [fps |-> f, quality |-> "high", crf |-> 23] : f \in SceneFps }
    ELSE { [fps |-> IF cf = 0 THEN f ELSE cf, quality |-> q, crf |-> cc] :
             f \in SceneFps, cf \in CustomFps, q \in Qualities, cc \in CustomCrf }

\* output_dir + "<Channel>Out/" + blend_filename + ".mp4"
OutputFile(channel, base) ==
    [dir |-> IF channel = "mobile" THEN "MobileOut" ELSE "DesktopOut",
     name |-> base \o <<".","m","p","4">>]

Report(level, msg) == [level |-> level, msg |-> msg]

\* ffmpeg_command = getattr(self, 'ffmpeg_path', 'ffmpeg')
FfmpegCommand(path) == IF path = "" THEN "ffmpeg" ELSE path

NoTempDir == [exists |-> FALSE, files |-> EmptyDir]

NoDir == [exists |-> FALSE, listing |-> <<>>]

Init ==
    /\ QueueIdle
    /\ pc = "start"
    /\ op \in Operators
    /\ platform \in Platforms
    /\ blend_filepath \in RunBlendFiles
    /\ loop_extend_frames \in BOOLEAN
    /\ hold_frames \in 1..MaxRunHold
    /\ blend_filename = <<>>
    /\ frames_dir = NoDir
    /\ original_frames = <<>>
    /\ temp_dir = NoTempDir
    /\ copies = <<>>
    /\ total_frames = 0
    /\ chan = ""
    /\ call = NoCall
    /\ ffmpeg_path = ""
    /\ probes = <<>>
    /\ frames = <<>>
    /\ png_dir = {}
    /\ conversions = <<>>
    /\ encodes = <<>>
    /\ reports = {}
    /\ trace = <<>>
    /\ ret = FALSE
    /\ results = <<>>
    /\ result = ""

\* the locals of a call of create_video_with_ffmpeg when it starts
EnterCall(channel) ==
    /\ chan' = channel
    /\ call' \in CallArgs(op)
    /\ frames_dir' = NoDir
    /\ original_frames' = <<>>
    /\ temp_dir' = NoTempDir
    /\ copies' = <<>>
    /\ total_frames' = 0
    /\ probes' = <<>>
    /\ frames' = <<>>
    /\ png_dir' = {}
    /\ conversions' = <<>>
    /\ encodes' = <<>>
    /\ reports' = {}
    /\ trace' = <<>>
    /\ pc' = "check_ffmpeg"

\* execute: 'if not blend_filepath: return CANCELLED'
ExecuteUnsaved ==
    /\ pc = "start"
    /\ blend_filepath = <<>>
    /\ result' = "CANCELLED"
    /\ pc' = "done"
    /\ UNCHANGED <<framesVars, op, platform, blend_filepath, chan, call,
                   ffmpeg_path, probes, frames, png_dir, conversions, encodes,
                   reports, trace, ret, results>>
    /\ UNCHANGED queueVars

\* execute up to the first call of create_video_with_ffmpeg
ExecuteStart ==
    /\ pc = "start"
    /\ blend_filepath # <<>>
    /\ blend_filename' = splitext(blend_filepath)[1]
    /\ EnterCall(ChannelsOf(op)[1])
    /\ UNCHANGED <<loop_extend_frames, hold_frames, op, platform,
                   blend_filepath, ffmpeg_path, ret, results, result>>
    /\ UNCHANGED queueVars

\* 'if not self.check_ffmpeg(): ... return False'
CheckFfmpeg ==
    /\ pc = "check_ffmpeg"
    /\ \E env \in RunEnvs :
        LET check == check_ffmpeg(platform, env)
        IN /\ probes' = check.probes
           /\ ffmpeg_path' = IF check.found THEN check.path ELSE ffmpeg_path
           /\ IF CheckFailed(check)
              THEN /\ reports' = reports \cup
                        {Report("ERROR", "FFmpeg is required but not found")}
                   /\ ret' = FALSE
                   /\ pc' = "returned"
              ELSE /\ pc' = "find_frames"
                   /\ UNCHANGED <<reports, ret>>
    /\ trace' = Append(trace, "check_ffmpeg")
    /\ UNCHANGED <<framesVars, op, platform, blend_filepath, chan, call,
                   frames, png_dir, conversions, encodes, results, result>>
    /\ UNCHANGED queueVars

\* 'original_frames = self.find_frames(...)' up to the EXR test
FindFrames ==
    /\ pc = "find_frames"
    /\ \E dir \in RunDirs :
        \E found \in {find_frames(dir, blend_filename)} :
           /\ frames_dir' = dir
           /\ original_frames' = found
           /\ IF NoFrames(found)
              THEN /\ reports' = reports \cup {NoFramesResult(dir).report}
                   /\ ret' = NoFramesResult(dir).ret
                   /\ pc' = "returned"
                   /\ frames' = frames
              ELSE /\ frames' = found
                   /\ pc' = IF is_exr(found) THEN "convert" ELSE "tempdir"
                   /\ UNCHANGED <<reports, ret>>
    /\ trace' = Append(trace, "find_frames")
    /\ UNCHANGED <<blend_filename, loop_extend_frames, hold_frames, temp_dir,
                   copies, total_frames, op, platform, blend_filepath, chan,
                   call, ffmpeg_path, probes, png_dir, conversions, encodes,
                   results, result>>
    /\ UNCHANGED queueVars

\* the PNG files the conversion of frames can write
PngNames(exr_frames, base) ==
    { PngPath(base, FrameNumStr(basename(exr_frames[i]))).name :
        i \in 1..Len(exr_frames) }

\* a conversion step that ends the call with failure when no PNG frame
\* was produced
ConvertExrStops ==
    /\ pc = "convert"
    /\ \E exr_frames \in {find_frames(frames_dir, blend_filename)} :
       \E pngs \in SUBSET PngNames(exr_frames, blend_filename),
          outcome \in [1..Len(exr_frames) -> ConvertOutcomes] :
       \E conv \in {convert_exr_to_png(exr_frames, blend_filename, pngs, outcome)} :
           /\ png_dir' = conv.pngs
           /\ conversions' = conv.converted
           /\ IF Len(conv.png_frames) > 0
              THEN /\ frames' = conv.png_frames
                   /\ reports' = reports \cup
                        {Report("INFO", "Using converted PNG frames instead of EXR")}
                   /\ pc' = "tempdir"
                   /\ ret' = ret
              ELSE /\ frames' = frames
                   /\ reports' = reports \cup
                        {Report("WARNING", "PNG conversion failed, falling back to original EXR frames")}
                   /\ pc' = "returned"
                   /\ ret' = FALSE
    /\ trace' = Append(trace, "convert")
    /\ UNCHANGED <<framesVars, op, platform, blend_filepath, chan, call,
                   ffmpeg_path, probes, encodes, results, result>>
    /\ UNCHANGED queueVars

\* 'if is_exr: png_frames = self.convert_exr_to_png(...)'
ConvertExr ==
    /\ pc = "convert"
    /\ \E exr_frames \in {find_frames(frames_dir, blend_filename)} :
       \E pngs \in SUBSET PngNames(exr_frames, blend_filename),
          outcome \in [1..Len(exr_frames) -> ConvertOutcomes] :
       \E conv \in {convert_exr_to_png(exr_frames, blend_filename, pngs, outcome)} :
           /\ png_dir' = conv.pngs
           /\ conversions' = conv.converted
           /\ frames' = FramesToStage(frames, conv.png_frames)
           /\ IF Len(conv.png_frames) > 0
              THEN reports' = reports \cup
                        {Report("INFO", "Using converted PNG frames instead of EXR")}
              ELSE reports' = reports \cup
                        {Report("WARNING", "PNG conversion failed, falling back to original EXR frames")}
    /\ trace' = Append(trace, "convert")
    /\ pc' = "tempdir"
    /\ UNCHANGED <<framesVars, op, platform, blend_filepath, chan, call,
                   ffmpeg_path, probes, encodes, ret, results, result>>
    /\ UNCHANGED queueVars

\* 'with tempfile.TemporaryDirectory() as temp_dir:'
CreateTempDir ==
    /\ pc = "tempdir"
    /\ temp_dir' = [exists |-> TRUE, files |-> EmptyDir]
    /\ reports' = reports \cup {Report("INFO", "Created temporary directory")}
    /\ pc' = "prepare"
    /\ UNCHANGED <<blend_filename, frames_dir, loop_extend_frames, hold_frames,
                   original_frames, copies, total_frames, op, platform,
                   blend_filepath, chan, call, ffmpeg_path, probes, frames,
                   png_dir, conversions, encodes, trace, ret, results, result>>
    /\ UNCHANGED queueVars

\* a staging step that goes on to the encoder with the last copy missing
PrepareFramesIncomplete ==
    /\ pc = "prepare"
    /\ \E prep \in {prepare_frames_for_ffmpeg(frames, loop_extend_frames, hold_frames)} :
          /\ copies' = SubSeq(prep.copies, 1, Len(prep.copies) - 1)
          /\ total_frames' = prep.ret
          /\ temp_dir' = [exists |-> TRUE,
                          files |-> ApplyCopies(temp_dir.files,
                                       SubSeq(prep.copies, 1, Len(prep.copies) - 1))]
          /\ pc' = "encode"
          /\ UNCHANGED <<reports, ret>>
    /\ trace' = Append(trace, "prepare")
    /\ UNCHANGED <<blend_filename, frames_dir, loop_extend_frames, hold_frames,
                   original_frames, op, platform, blend_filepath, chan, call,
                   ffmpeg_path, probes, frames, png_dir, conversions, encodes,
                   results, result>>
    /\ UNCHANGED queueVars

\* 'total_frames = self.prepare_frames_for_ffmpeg(...)' and the test of
\* total_frames, every copy succeeding
PrepareFrames ==
    /\ pc = "prepare"
    /\ \E prep \in {prepare_frames_for_ffmpeg(frames, loop_extend_frames, hold_frames)} :
          /\ copies' = prep.copies
          /\ total_frames' = prep.ret
          /\ IF prep.ret = 0
             THEN /\ reports' = reports \cup
                       {Report("ERROR", "No frames were prepared for FFmpeg")}
                  /\ ret' = FALSE
                  /\ temp_dir' = ExitTempDir(temp_dir)
                  /\ pc' = "returned"
             ELSE /\ temp_dir' = [exists |-> TRUE,
                                  files |-> ApplyCopies(temp_dir.files, prep.copies)]
                  /\ pc' = "encode"
                  /\ UNCHANGED <<reports, ret>>
    /\ trace' = Append(trace, "prepare")
    /\ UNCHANGED <<blend_filename, frames_dir, loop_extend_frames, hold_frames,
                   original_frames, op, platform, blend_filepath, chan, call,
                   ffmpeg_path, probes, frames, png_dir, conversions, encodes,
                   results, result>>
    /\ UNCHANGED queueVars

\* the k-th shutil.copy2 raises: the exception leaves the with block, the
\* call and execute, which have no handler for it
PrepareFramesRaise ==
    /\ pc = "prepare"
    /\ \E prep \in {prepare_frames_for_ffmpeg(frames, loop_extend_frames, hold_frames)} :
          \E k \in 1..Len(prep.copies) :
            /\ copies' = SubSeq(prep.copies, 1, k - 1)
            /\ temp_dir' = ExitTempDir([exists |-> TRUE,
                               files |-> ApplyCopies(temp_dir.files,
                                             SubSeq(prep.copies, 1, k - 1))])
    /\ trace' = Append(trace, "prepare")
    /\ result' = "RAISED"
    /\ pc' = "done"
    /\ UNCHANGED <<blend_filename, frames_dir, loop_extend_frames, hold_frames,
                   original_frames, total_frames, op, platform, blend_filepath,
                   chan, call, ffmpeg_path, probes, frames, png_dir,
                   conversions, encodes, reports, ret, results>>
    /\ UNCHANGED queueVars

\* a result that counts a missing output file as a failure
EncodeResultStrict(outcome) ==
    IF outcome = "exit0_file"
    THEN [ret |-> TRUE,
          reports |-> {Report("INFO", "FFmpeg successfully created video"),
                       Report("INFO", "Output file exists")}]
    ELSE IF outcome = "exit0_nofile"
    THEN [ret |-> FALSE,
          reports |-> {Report("ERROR", "FFmpeg reported success but output file not found")}]
    ELSE IF outcome = "exit_nonzero"
    THEN [ret |-> FALSE, reports |-> {Report("ERROR", "FFmpeg error")}]
    ELSE [ret |-> FALSE, reports |-> {Report("ERROR", "Error running FFmpeg")}]

\* the reports and the return value for an outcome of the encoder
EncodeResult(outcome) ==
    IF outcome = "exit0_file"
    THEN [ret |-> TRUE,
          reports |-> {Report("INFO", "FFmpeg successfully created video"),
                       Report("INFO", "Output file exists")}]
    ELSE IF outcome = "exit0_nofile"
    THEN [ret |-> TRUE,
          reports |-> {Report("INFO", "FFmpeg successfully created video"),
                       Report("WARNING", "FFmpeg reported success but output file not found")}]
    ELSE IF outcome = "exit_nonzero"
    THEN [ret |-> FALSE, reports |-> {Report("ERROR", "FFmpeg error")}]
    ELSE [ret |-> FALSE, reports |-> {Report("ERROR", "Error running FFmpeg")}]

\* an encode step that runs the encoder a second time when it failed and
\* returns the result of the second run
EncodeWithRetry ==
    /\ pc = "encode"
    /\ \E first \in DOMAIN temp_dir.files, outcome \in EncodeOutcomes,
          again \in EncodeOutcomes :
        LET cmd == FfmpegCmd(FfmpegCommand(ffmpeg_path), call.fps,
                             splitext(first)[2], QualitySettings(call.quality),
                             OutputFile(chan, blend_filename))
        IN IF EncodeResult(outcome).ret
           THEN /\ encodes' = Append(encodes, [cmd |-> cmd, outcome |-> outcome])
                /\ reports' = reports \cup EncodeResult(outcome).reports
                /\ ret' = TRUE
           ELSE /\ encodes' = encodes \o <<[cmd |-> cmd, outcome |-> outcome],
                                            [cmd |-> cmd, outcome |-> again]>>
                /\ reports' = reports \cup EncodeResult(again).reports
                /\ ret' = EncodeResult(again).ret
    /\ temp_dir' = ExitTempDir(temp_dir)
    /\ trace' = Append(trace, "encode")
    /\ pc' = "returned"
    /\ UNCHANGED <<blend_filename, frames_dir, loop_extend_frames, hold_frames,
                   original_frames, copies, total_frames, op, platform,
                   blend_filepath, chan, call, ffmpeg_path, probes, frames,
                   png_dir, conversions, results, result>>
    /\ UNCHANGED queueVars

\* quality settings, output directory, command line, subprocess.run and
\* the return; first is the staged file the glob of temp_dir returns first
Encode ==
    /\ pc = "encode"
    /\ \E first \in DOMAIN temp_dir.files, outcome \in EncodeOutcomes :
        LET cmd == FfmpegCmd(FfmpegCommand(ffmpeg_path), call.fps,
                             splitext(first)[2], QualitySettings(call.quality),
                             OutputFile(chan, blend_filename))
        IN /\ encodes' = Append(encodes, [cmd |-> cmd, outcome |-> outcome])
           /\ reports' = reports \cup EncodeResult(outcome).reports
           /\ ret' = EncodeResult(outcome).ret
    /\ temp_dir' = ExitTempDir(temp_dir)
    /\ trace' = Append(trace, "encode")
    /\ pc' = "returned"
    /\ UNCHANGED <<blend_filename, frames_dir, loop_extend_frames, hold_frames,
                   original_frames, copies, total_frames, op, platform,
                   blend_filepath, chan, call, ffmpeg_path, probes, frames,
                   png_dir, conversions, results, result>>
    /\ UNCHANGED queueVars

\* os.makedirs(output_dir) raises: the exception leaves the with block, the
\* call and execute
OutputDirRaise ==
    /\ pc = "encode"
    /\ temp_dir' = ExitTempDir(temp_dir)
    /\ result' = "RAISED"
    /\ pc' = "done"
    /\ UNCHANGED <<blend_filename, frames_dir, loop_extend_frames, hold_frames,
                   original_frames, copies, total_frames, op, platform,
                   blend_filepath, chan, call, ffmpeg_path, probes, frames,
                   png_dir, conversions, encodes, reports, trace, ret, results>>
    /\ UNCHANGED queueVars

\* an operator that gives up the desktop channel when the mobile channel
\* failed
NextChannelUnlessFailed ==
    /\ pc = "returned"
    /\ Len(results) + 1 < Len(ChannelsOf(op))
    /\ results' = Append(results, [channel |-> chan, success |-> ret])
    /\ IF ret
       THEN /\ EnterCall(ChannelsOf(op)[Len(results) + 2])
            /\ UNCHANGED result
       ELSE /\ result' = "CANCELLED"
            /\ pc' = "done"
            /\ UNCHANGED <<frames_dir, original_frames, temp_dir, copies,
                           total_frames, chan, call, probes, frames, png_dir,
                           conversions, encodes, reports, trace>>
    /\ UNCHANGED <<blend_filename, loop_extend_frames, hold_frames, op,
                   platform, blend_filepath, ffmpeg_path, ret>>
    /\ UNCHANGED queueVars

\* the first call of render_all returned: success_mobile is assigned and
\* the desktop call is made
NextChannel ==
    /\ pc = "returned"
    /\ Len(results) + 1 < Len(ChannelsOf(op))
    /\ results' = Append(results, [channel |-> chan, success |-> ret])
    /\ EnterCall(ChannelsOf(op)[Len(results) + 2])
    /\ UNCHANGED <<blend_filename, loop_extend_frames, hold_frames, op,
                   platform, blend_filepath, ffmpeg_path, ret, result>>
    /\ UNCHANGED queueVars

\* a variant that requires every channel to succeed (used to test Aggregate)
AggregateAll(successes) == IF \A i \in 1..Len(successes) : successes[i]
                           THEN "FINISHED" ELSE "CANCELLED"

\* 'if success_mobile or success_desktop' / 'if success'
Aggregate(successes) ==
    IF \E i \in 1..Len(successes) : successes[i] THEN "FINISHED" ELSE "CANCELLED"

\* the last call returned: execute reports and returns
ExecuteEnd ==
    /\ pc = "returned"
    /\ Len(results) + 1 = Len(ChannelsOf(op))
    /\ results' = Append(results, [channel |-> chan, success |-> ret])
    /\ result' = Aggregate([i \in 1..(Len(results) + 1) |->
                              IF i <= Len(results) THEN results[i].success ELSE ret])
    /\ pc' = "done"
    /\ UNCHANGED <<framesVars, op, platform, blend_filepath, chan, call,
                   ffmpeg_path, probes, frames, png_dir, conversions, encodes,
                   reports, trace, ret>>
    /\ UNCHANGED queueVars

Next ==
    \/ ExecuteUnsaved \/ ExecuteStart
    \/ CheckFfmpeg \/ FindFrames \/ ConvertExr \/ CreateTempDir
    \/ PrepareFrames \/ PrepareFramesRaise \/ Encode \/ OutputDirRaise
    \/ NextChannel \/ ExecuteEnd

Spec == Init /\ [][Next]_vars

\* ------------------------------------------------------------------------
\* SpecDiscovery: check_ffmpeg applied to the environments
\* ------------------------------------------------------------------------

\* what a direct path can be: absent, working, failing its version check,
\* impossible to run
KnownStatuses == {"missing", "ok", "broken", "raises"}

PathStatuses == {"ok", "broken", "notfound", "raises"}

WhichStatuses == {"found", "none", "raises"}

VerifyStatuses == {"ok", "broken", "raises"}

\* the environments of discovery: the first three direct paths of macOS and
\* the first two of Windows vary, the other direct paths are absent
DiscoveryEnvs ==
    { [known  |-> [p \in AllKnownPaths |->
                     IF p \in {mac_ffmpeg_paths[1], windows_ffmpeg_paths[1]} THEN k[1]
                     ELSE IF p \in {mac_ffmpeg_paths[2], windows_ffmpeg_paths[2]} THEN k[2]
                     ELSE IF p = mac_ffmpeg_paths[3] THEN k[3]
                     ELSE "missing"],
       path   |-> pa,
       which  |-> wh,
       verify |-> ve] :
        k \in [1..3 -> KnownStatuses], pa \in PathStatuses,
        wh \in WhichStatuses, ve \in VerifyStatuses }

InitDiscovery ==
    /\ QueueIdle
    /\ pc = "discovery_call"
    /\ platform \in Platforms
    /\ op = "check_ffmpeg"
    /\ blend_filename = <<>>
    /\ frames_dir = NoDir
    /\ loop_extend_frames = FALSE
    /\ hold_frames = 1
    /\ original_frames = <<>>
    /\ temp_dir = NoTempDir
    /\ copies = <<>>
    /\ total_frames = 0
    /\ blend_filepath = <<>>
    /\ chan = ""
    /\ call = NoCall
    /\ ffmpeg_path = ""
    /\ probes = <<>>
    /\ frames = <<>>
    /\ png_dir = {}
    /\ conversions = <<>>
    /\ encodes = <<>>
    /\ reports = {}
    /\ trace = <<>>
    /\ ret = FALSE
    /\ results = <<>>
    /\ result = ""

\* self.check_ffmpeg() in an environment: the probes it runs, the location
\* it stores and the value it returns
Discover ==
    /\ pc = "discovery_call"
    /\ \E env \in DiscoveryEnvs :
        \E check \in {check_ffmpeg(platform, env)} :
           /\ probes' = check.probes
           /\ ffmpeg_path' = IF check.found THEN check.path ELSE ffmpeg_path
           /\ ret' = check.found
    /\ pc' = "discovery_done"
    /\ UNCHANGED <<framesVars, op, platform, blend_filepath, chan, call,
                   frames, png_dir, conversions, encodes, reports, trace,
                   results, result>>
    /\ UNCHANGED queueVars

NextDiscovery == Discover

SpecDiscovery == InitDiscovery /\ [][NextDiscovery]_vars

\* ------------------------------------------------------------------------
\* SpecConvert: convert_exr_to_png applied to directories, twice
\* ------------------------------------------------------------------------

MaxConvertFiles == 3

\* files of a frames directory with EXR frames: two numbered frames, one
\* without index, one with two '_<digits>.', and a PNG file
ConvertFiles ==
    { <<"c","_","1",".","e","x","r">>,
      <<"c","_","2",".","e","x","r">>,
      <<"c","_","x",".","e","x","r">>,
      <<"c","_","1",".","v","_","2",".","e","x","r">>,
      <<"c","_","2",".","p","n","g">> }

\* the PNG files png_temp may hold before the first conversion
ConvertPngs == { <<"c","_","1",".","p","n","g">>, <<"c","_","2",".","p","n","g">> }

\* the directories of the conversion: the listing, and for each file what
\* loading and saving it does
ConvertDirs ==
    { [exists |-> TRUE, listing |-> l, outcome |-> o] :
        l \in InjectiveSeqs(ConvertFiles, MaxConvertFiles) \ {<<>>},
        o \in [ConvertFiles -> ConvertOutcomes] }

\* the outcome of each frame of a list, by position
OutcomeOf(dir, exr_frames) ==
    [i \in 1..Len(exr_frames) |-> dir.outcome[basename(exr_frames[i])]]

InitConvert ==
    /\ QueueIdle
    /\ pc = "convert_call"
    /\ op = "convert_exr_to_png"
    /\ blend_filename = <<"c">>
    /\ frames_dir \in { dir \in ConvertDirs :
            /\ \A n \in ConvertFiles :
                 (\A i \in 1..Len(dir.listing) : dir.listing[i] # n) => dir.outcome[n] = "ok"
            /\ find_frames(dir, <<"c">>) # <<>>
            /\ is_exr(find_frames(dir, <<"c">>)) }
    /\ png_dir \in SUBSET ConvertPngs
    /\ platform = "linux"
    /\ loop_extend_frames = FALSE
    /\ hold_frames = 1
    /\ original_frames = <<>>
    /\ temp_dir = NoTempDir
    /\ copies = <<>>
    /\ total_frames = 0
    /\ blend_filepath = <<>>
    /\ chan = ""
    /\ call = NoCall
    /\ ffmpeg_path = ""
    /\ probes = <<>>
    /\ frames = <<>>
    /\ conversions = <<>>
    /\ encodes = <<>>
    /\ reports = {}
    /\ trace = <<>>
    /\ ret = FALSE
    /\ results = <<>>
    /\ result = ""

\* what a call of convert_exr_to_png(frames_dir, blend_filename) does to the
\* state: the frames it found, the PNG files, the frames it converted and
\* the list it returns
ConvertCall ==
    \E exr_frames \in {find_frames(frames_dir, blend_filename)} :
    \E conv \in {convert_exr_to_png(exr_frames, blend_filename, png_dir,
                                     OutcomeOf(frames_dir, exr_frames))} :
        /\ original_frames' = exr_frames
        /\ png_dir' = conv.pngs
        /\ conversions' = conv.converted
        /\ frames' = conv.png_frames

\* the first call on the directory
ConvertRun ==
    /\ pc = "convert_call"
    /\ ConvertCall
    /\ pc' = "converted"
    /\ UNCHANGED <<blend_filename, frames_dir, loop_extend_frames, hold_frames,
                   temp_dir, copies, total_frames, op, platform, blend_filepath,
                   chan, call, ffmpeg_path, probes, encodes, reports, trace,
                   ret, results, result>>
    /\ UNCHANGED queueVars

\* a second call on the same directory
ConvertRerun ==
    /\ pc = "converted"
    /\ ConvertCall
    /\ pc' = "converted_again"
    /\ UNCHANGED <<blend_filename, frames_dir, loop_extend_frames, hold_frames,
                   temp_dir, copies, total_frames, op, platform, blend_filepath,
                   chan, call, ffmpeg_path, probes, encodes, reports, trace,
                   ret, results, result>>
    /\ UNCHANGED queueVars

NextConvert == ConvertRun \/ ConvertRerun

SpecConvert == InitConvert /\ [][NextConvert]_vars

\* ------------------------------------------------------------------------
\* SpecQueue: the process queue (server/process_queue.py)
\* ------------------------------------------------------------------------

\* how a call of process_file ends: an exception of the steps before the
\* try statement (output directory, copy of the .blend, script), an
\* exception of subprocess.run, a nonzero exit code, exit code 0 with an
\* exception while the videos are copied, exit code 0
ProcessOutcomes ==
    {"setup_raises", "run_raises", "exit_nonzero", "exit0_copy_raises", "exit0"}

\* how writing processed_files.json ends: written, open() raises, the
\* write stops after the file was truncated
SaveOutcomes == {"ok", "open_fails", "write_fails"}

\* the orders in which glob may return the files of a set
ListingsOf(S) ==
    { l \in UNION { [1..n -> S] : n \in 0..Cardinality(S) } :
        /\ Len(l) = Cardinality(S)
        /\ \A i, j \in 1..Len(l) : l[i] = l[j] => i = j }

\* __init__: what is loaded from processed_files.json; nothing when the file
\* does not exist or cannot be parsed
LoadProcessedFiles(log) ==
    IF log.exists /\ log.readable THEN log.files ELSE {}

\* save_processed_files: the file processed_files.json afterwards; a failure
\* is logged and not raised
save_processed_files(log, processed, saved) ==
    CASE saved = "ok" ->
           [exists |-> TRUE, readable |-> TRUE, files |-> processed]
      [] saved = "open_fails" -> log
      [] saved = "write_fails" ->
           [exists |-> TRUE, readable |-> FALSE, files |-> {}]

\* get_pending_files: the .blend files of the input directory that are
\* neither processed nor being processed
get_pending_files ==
    { f \in input_files : f \notin processed_files /\ f \notin processing_files }

\* a variant of MarksProcessed that marks a file whenever Blender exited
MarksProcessedOnExit(outcome) ==
    outcome \in {"exit0", "exit0_copy_raises", "exit_nonzero"}

\* process_file adds the file to processed_files: returncode 0 and the
\* copies of the videos done
MarksProcessed(outcome) ==
    outcome = "exit0"

InitQueue ==
    /\ pc = "queue_start"
    /\ input_files \in SUBSET QueueFiles
    /\ processed_files = {}
    /\ processing_files = {}
    /\ processed_log = NoLog
    /\ pending = <<>>
    /\ last_outcome = [f \in QueueFiles |-> "none"]
    /\ marked = {}
    /\ op = "process_queue"
    /\ platform = "linux"
    /\ blend_filename = <<>>
    /\ frames_dir = NoDir
    /\ loop_extend_frames = FALSE
    /\ hold_frames = 1
    /\ original_frames = <<>>
    /\ temp_dir = NoTempDir
    /\ copies = <<>>
    /\ total_frames = 0
    /\ blend_filepath = <<>>
    /\ chan = ""
    /\ call = NoCall
    /\ ffmpeg_path = ""
    /\ probes = <<>>
    /\ frames = <<>>
    /\ png_dir = {}
    /\ conversions = <<>>
    /\ encodes = <<>>
    /\ reports = {}
    /\ trace = <<>>
    /\ ret = FALSE
    /\ results = <<>>
    /\ result = ""

\* BlenderProcessQueue.__init__: both sets start empty, then the log is
\* loaded
QueueInit ==
    /\ pc = "queue_start"
    /\ processed_files' = LoadProcessedFiles(processed_log)
    /\ processing_files' = {}
    /\ pending' = <<>>
    /\ last_outcome' = [f \in QueueFiles |-> "none"]
    /\ pc' = "queue_poll"
    /\ UNCHANGED <<processed_log, input_files, marked, framesVars, runVars>>

\* run: pending = self.get_pending_files(), in the order glob returns
QueuePoll ==
    /\ pc = "queue_poll"
    /\ pending' \in ListingsOf(get_pending_files)
    /\ pc' = IF get_pending_files = {} THEN "queue_sleep" ELSE "queue_iter"
    /\ UNCHANGED <<processed_files, processing_files, processed_log,
                   input_files, last_outcome, marked, framesVars, runVars>>

\* run: self.process_file(blend_file) for the next file of pending
ProcessFile ==
    /\ pc = "queue_iter"
    /\ \E outcome \in ProcessOutcomes, saved \in SaveOutcomes :
        LET blend_file == Head(pending)
            entered == processing_files \cup {blend_file}
            processed == IF MarksProcessed(outcome)
                            THEN processed_files \cup {blend_file}
                            ELSE processed_files
        IN  /\ processing_files' = IF outcome = "setup_raises"
                                      THEN entered
                                      ELSE entered \ {blend_file}
            /\ processed_files' = processed
            /\ processed_log' = IF MarksProcessed(outcome)
                                   THEN save_processed_files(processed_log,
                                                             processed, saved)
                                   ELSE processed_log
            /\ marked' = IF MarksProcessed(outcome)
                            THEN marked \cup {blend_file}
                            ELSE marked
            /\ last_outcome' = [last_outcome EXCEPT ![blend_file] = outcome]
            /\ pending' = IF outcome = "setup_raises" THEN <<>> ELSE Tail(pending)
            /\ pc' = IF outcome = "setup_raises" THEN "queue_raising"
                     ELSE IF Tail(pending) = <<>> THEN "queue_sleep"
                     ELSE "queue_iter"
    /\ UNCHANGED <<input_files, framesVars, runVars>>

\* run: time.sleep(10) returns and the loop polls again
QueueSleep ==
    /\ pc = "queue_sleep"
    /\ pc' = "queue_poll"
    /\ UNCHANGED <<queueVars, framesVars, runVars>>

\* run: the loop is left by KeyboardInterrupt during the sleep or by the
\* exception process_file raised; finally saves the log
QueueExit ==
    /\ pc \in {"queue_sleep", "queue_raising"}
    /\ \E saved \in SaveOutcomes :
        processed_log' = save_processed_files(processed_log, processed_files, saved)
    /\ pc' = "queue_exited"
    /\ UNCHANGED <<processed_files, processing_files, input_files, pending,
                   last_outcome, marked, framesVars, runVars>>

\* main is started again
QueueRestart ==
    /\ pc = "queue_exited"
    /\ pc' = "queue_start"
    /\ UNCHANGED <<queueVars, framesVars, runVars>>

\* a .blend file is put into the input directory
DropFile ==
    /\ pc \in {"queue_poll", "queue_iter", "queue_sleep"}
    /\ \E f \in QueueFiles \ input_files : input_files' = input_files \cup {f}
    /\ UNCHANGED <<pc, processed_files, processing_files, processed_log,
                   pending, last_outcome, marked, framesVars, runVars>>

NextQueue ==
    \/ QueueInit
    \/ QueuePoll
    \/ ProcessFile
    \/ QueueSleep
    \/ QueueExit
    \/ QueueRestart
    \/ DropFile

SpecQueue == InitQueue /\ [][NextQueue]_vars

\* ------------------------------------------------------------------------
\* Properties of find_frames
\* ------------------------------------------------------------------------

\* the files of the directory that match one of the glob patterns
MatchingFiles(dir, base) ==
    { dir.listing[i] : i \in { j \in 1..Len(dir.listing) :
        \E k \in 1..Len(Extensions) : GlobMatch(dir.listing[j], base, Extensions[k]) } }

\* what stands between "<base>_" and the final ".<ext>" of a name
IndexPart(name, base) == SubSeq(name, Len(base) + 2, LastDot(name) - 1)

\* the name is <base>_<digits>.<ext>
ConventionName(name, base) ==
    /\ IndexPart(name, base) # <<>>
    /\ \A i \in 1..Len(IndexPart(name, base)) : IndexPart(name, base)[i] \in Digits

\* the numeric index of a name <base>_<digits>.<ext>
IndexOf(name, base) == ParseInt(IndexPart(name, base))

\* every matching file follows the convention and no two share an index
ConventionDir(dir, base) ==
    /\ dir.exists
    /\ \A n \in MatchingFiles(dir, base) : ConventionName(n, base)
    /\ \A n, m \in MatchingFiles(dir, base) :
          n # m => IndexOf(n, base) # IndexOf(m, base)

\* C1: for a directory whose matching files are all named
\* <baseName>_<digits>.<ext> with pairwise distinct indices, find_frames
\* returns each matching file exactly once, in strictly ascending order of
\* the numeric index, whatever the order of the listing.
C1_AscendingByIndex ==
    (pc = "frames_found" /\ ConventionDir(frames_dir, blend_filename)) =>
        /\ Len(original_frames) = Cardinality(MatchingFiles(frames_dir, blend_filename))
        /\ { original_frames[i].name : i \in 1..Len(original_frames) }
              = MatchingFiles(frames_dir, blend_filename)
        /\ \A i, j \in 1..Len(original_frames) :
              i < j => IndexOf(original_frames[i].name, blend_filename)
                         < IndexOf(original_frames[j].name, blend_filename)

\* ------------------------------------------------------------------------
\* Properties of prepare_frames_for_ffmpeg
\* ------------------------------------------------------------------------

\* the number in the name of a staged file: the digits after "frame_"
StagedNumber(name) == ParseInt(SubSeq(name, 7, LastDot(name) - 1))

\* the name is frame_<at least four digits>.<ext>
IsStagedName(name) ==
    /\ StartsWith(name, <<"f","r","a","m","e","_">>)
    /\ LastDot(name) - 7 >= 4
    /\ \A i \in 7..(LastDot(name) - 1) : name[i] \in Digits

StagedNumbers == { StagedNumber(n) : n \in DOMAIN temp_dir.files }

\* the source frame of the staged file with number p
StagedAt(p) ==
    temp_dir.files[CHOOSE n \in DOMAIN temp_dir.files : StagedNumber(n) = p]

\* the staged files are numbered 1..count, one file per number
Contiguous(count) ==
    /\ \A n \in DOMAIN temp_dir.files : IsStagedName(n)
    /\ Cardinality(DOMAIN temp_dir.files) = count
    /\ StagedNumbers = 1..count

FramesStaged == pc = "frames_staged"

\* C2: for N >= 1 frames with loop disabled, exactly N files are staged,
\* staged file number i is a copy of the i-th input frame, and N is returned.
C2_ForwardStaging ==
    (FramesStaged /\ ~loop_extend_frames /\ Len(original_frames) >= 1) =>
        /\ Contiguous(Len(original_frames))
        /\ \A i \in 1..Len(original_frames) : StagedAt(i) = original_frames[i]
        /\ total_frames = Len(original_frames)

C2_Witness ==
    /\ FramesStaged /\ ~loop_extend_frames /\ Len(original_frames) = 3
    /\ StagedAt(3) = original_frames[3]

\* C3: for N > 1 frames with loop enabled and hold count h, exactly 2N + 2h
\* files are staged, their numbers are exactly 1..2N+2h, no number is
\* written twice, and the returned count is the number of staged files.
C3_LoopCount ==
    (FramesStaged /\ loop_extend_frames /\ Len(original_frames) > 1) =>
        /\ Contiguous(2 * Len(original_frames) + 2 * hold_frames)
        /\ \A i, j \in 1..Len(copies) : i # j => copies[i].name # copies[j].name
        /\ total_frames = Cardinality(DOMAIN temp_dir.files)

C3_Witness ==
    /\ FramesStaged /\ loop_extend_frames /\ Len(original_frames) = 3
    /\ hold_frames = 2 /\ total_frames = 10

\* C4: for N > 1 with loop enabled and hold count h the staged timeline is
\* frames 1..N, then h times frame N, then frames N..1, then h times frame 1.
C4_LoopOrder ==
    (FramesStaged /\ loop_extend_frames /\ Len(original_frames) > 1) =>
        LET N == Len(original_frames)
            h == hold_frames
        IN /\ StagedNumbers = 1..(2 * N + 2 * h)
           /\ \A p \in 1..N : StagedAt(p) = original_frames[p]
           /\ \A p \in (N + 1)..(N + h) : StagedAt(p) = original_frames[N]
           /\ \A j \in 1..N : StagedAt(N + h + j) = original_frames[N + 1 - j]
           /\ \A p \in (2 * N + h + 1)..(2 * N + 2 * h) :
                 StagedAt(p) = original_frames[1]

C4_Witness ==
    /\ FramesStaged /\ loop_extend_frames /\ Len(original_frames) = 3
    /\ hold_frames = 2
    /\ StagedAt(5) = original_frames[3] /\ StagedAt(6) = original_frames[3]
    /\ StagedAt(8) = original_frames[1] /\ StagedAt(10) = original_frames[1]

\* C5: for N = 1 with loop enabled the staging is the non-loop one: exactly
\* one file is staged, a copy of the frame, and there is no hold or reverse
\* segment.
C5_SingleFrameLoop ==
    (FramesStaged /\ loop_extend_frames /\ Len(original_frames) = 1) =>
        /\ Contiguous(1)
        /\ Len(copies) = 1
        /\ StagedAt(1) = original_frames[1]
        /\ total_frames = 1

C5_Witness ==
    /\ FramesStaged /\ loop_extend_frames /\ Len(original_frames) = 1
    /\ hold_frames = MaxHold /\ Len(copies) = 1

\* ------------------------------------------------------------------------
\* Properties of the channel run and of the operators
\* ------------------------------------------------------------------------

TempDirReport == Report("INFO", "Created temporary directory")

\* the stages the current call went through
Stages == { trace[i] : i \in 1..Len(trace) }

\* encoder discovery of the current call selected a location: one of its
\* version checks exited with code 0
DiscoveryFound == \E i \in 1..Len(probes) : probes[i].outcome = "ok"

\* the probes of the current call that ran as a subprocess (the others
\* could not be started)
SpawnedProbes ==
    { i \in 1..Len(probes) : probes[i].outcome \in {"ok", "broken", "found", "none"} }

\* C6: on every exit path of create_video_with_ffmpeg that created a
\* staging directory (encoder exit code 0 or nonzero, exception while
\* staging or while running the encoder, zero frames staged) the directory
\* no longer exists when the call returns or propagates.
C6_TempDirRemoved ==
    /\ (pc \in {"returned", "done"} /\ TempDirReport \in reports) =>
          (~temp_dir.exists /\ DOMAIN temp_dir.files = {})
    /\ temp_dir.exists => pc \in {"prepare", "encode"}

C6_Witness ==
    /\ pc = "done" /\ result = "RAISED"
    /\ TempDirReport \in reports /\ Len(copies) >= 1
    /\ ~temp_dir.exists

NoFramesRun ==
    /\ pc \in {"returned", "done"}
    /\ "find_frames" \in Stages
    /\ original_frames = <<>>

ExpandPattern(pattern, k) ==
    SubSeq(pattern, 1, 6) \o Format04d(k) \o SubSeq(pattern, 11, Len(pattern))

\* the crf and preset the claim gives for a quality
ClaimedCrf(q) ==
    IF q = "high" THEN "18" ELSE IF q = "medium" THEN "23" ELSE "28"

ClaimedPreset(q) ==
    IF q = "high" THEN "slow" ELSE IF q = "medium" THEN "medium" ELSE "fast"

\* C9: a channel run with a non-empty frames directory and loop disabled,
\* after discovery found the encoder, that returns, has invoked the encoder
\* exactly once, with -framerate fps, the input pattern frame_%04d.<ext> in
\* the staging directory (naming the staged files), crf and preset 18/slow
\* for high, 23/medium for medium, 28/fast for low; when the encoder exits
\* with code 0 the channel result is success.
C9_EncodeOnce ==
    /\ Len(encodes) <= 1
    /\ (/\ pc = "returned" /\ DiscoveryFound
        /\ original_frames # <<>> /\ ~loop_extend_frames) =>
          /\ Len(encodes) = 1
          /\ encodes[1].cmd.framerate = IntToStr(call.fps)
          /\ encodes[1].cmd.input.dir = "temp_dir"
          /\ SubSeq(encodes[1].cmd.input.name, 1, 10)
                = <<"f","r","a","m","e","_","%","0","4","d">>
          /\ Len(copies) = Len(frames)
          /\ \A k \in 1..Len(copies) :
                ExpandPattern(encodes[1].cmd.input.name, k) = copies[k].name
          /\ call.quality \in Qualities
          /\ encodes[1].cmd.crf = ClaimedCrf(call.quality)
          /\ encodes[1].cmd.preset = ClaimedPreset(call.quality)
          /\ (encodes[1].outcome \in {"exit0_file", "exit0_nofile"} => ret = TRUE)

C9_Witness ==
    /\ pc = "returned" /\ DiscoveryFound /\ ~loop_extend_frames
    /\ Len(original_frames) = 2 /\ call.quality = "medium" /\ call.fps = 24
    /\ Len(encodes) = 1 /\ encodes[1].outcome = "exit0_file"
    /\ encodes[1].cmd.crf = "23" /\ ret = TRUE

\* C10: the aggregate 'render all' run reports FINISHED if and only if at
\* least one channel reported success, and CANCELLED only when every
\* channel failed.
C10_AggregateIffAnySuccess ==
    (pc = "done" /\ op = "render_all") =>
        /\ (result = "FINISHED") <=> (\E i \in 1..Len(results) : results[i].success)
        /\ (result = "CANCELLED") => (\A i \in 1..Len(results) : ~results[i].success)

\* ------------------------------------------------------------------------
\* Properties of the channel boundary
\* ------------------------------------------------------------------------

\* the call of the first channel of the operator has ended, by a return or
\* by an exception
FirstChannelEnded == pc = "done" /\ blend_filepath # <<>>

\* the second channel of render_all was attempted
SecondChannelAttempted == Len(results) >= 1 /\ chan = ChannelsOf(op)[2]

\* C11: in a 'render all' run every failure of the first channel becomes
\* that channel's failure result and the second channel is still run: when
\* execute is over, the first channel has a result and the second channel
\* was attempted.
C11_SiblingStillRun ==
    (op = "render_all" /\ FirstChannelEnded) =>
        /\ Len(results) >= 1
        /\ results[1].channel = "mobile"
        /\ SecondChannelAttempted

\* ------------------------------------------------------------------------
\* Properties of find_frames: the empty result
\* ------------------------------------------------------------------------

\* find_frames has returned in the frames specification
FramesReturned == pc \in {"frames_found", "frames_staged", "frames_raised"}

\* C12: find_frames returns the empty sequence, without an error, when the
\* frames directory does not exist and when it exists but none of its files
\* matches the naming convention '<base>_*.<ext>' of a recognised extension.
C12_EmptyWithoutError ==
    (FramesReturned /\
     (~frames_dir.exists \/ MatchingFiles(frames_dir, blend_filename) = {})) =>
        original_frames = <<>>

\* a run where the directory is missing and one where it holds files, none
\* of them matching
C12_WitnessMissing ==
    FramesReturned /\ ~frames_dir.exists /\ original_frames = <<>>

C12_Witness ==
    /\ FramesReturned
    /\ frames_dir.exists
    /\ Len(frames_dir.listing) >= 2
    /\ MatchingFiles(frames_dir, blend_filename) = {}
    /\ original_frames = <<>>

\* ------------------------------------------------------------------------
\* Properties of the order of the stages
\* ------------------------------------------------------------------------

\* the position of a stage in the order discovery, locate, convert, build
\* the staged timeline, encode
StageRank(stage) ==
    CASE stage = "check_ffmpeg" -> 0
      [] stage = "find_frames"  -> 1
      [] stage = "convert"      -> 2
      [] stage = "prepare"      -> 3
      [] stage = "encode"       -> 4

\* the stages of the current call happened in the order of their ranks,
\* each at most once, and none without the stage it depends on
TraceInOrder ==
    /\ \A i, j \in 1..Len(trace) : i < j => StageRank(trace[i]) < StageRank(trace[j])
    /\ "convert" \in Stages => "find_frames" \in Stages
    /\ "prepare" \in Stages => "find_frames" \in Stages
    /\ "encode" \in Stages => "prepare" \in Stages

\* the staged timeline is complete: every copy of the frames to stage was
\* made and the directory holds the files numbered 1..total_frames
TimelineComplete ==
    /\ temp_dir.exists
    /\ copies = prepare_frames_for_ffmpeg(frames, loop_extend_frames, hold_frames).copies
    /\ total_frames = Len(copies)
    /\ total_frames >= 1
    /\ Contiguous(total_frames)

\* the step starts the encoder subprocess
EncoderStarts == Len(encodes') > Len(encodes)

\* C13: within one channel run the stages occur strictly in the order
\* locate frames, (optional) conversion, build staged timeline, encode, and
\* the encoder is started only in a state where the staged timeline is
\* complete.
C13_StageOrder ==
    /\ []TraceInOrder
    /\ [][EncoderStarts => (pc = "encode" /\ TimelineComplete)]_vars

\* a call that went through all the stages, the conversion included
C13_Witness ==
    /\ trace = <<"check_ffmpeg", "find_frames", "convert", "prepare", "encode">>
    /\ Len(encodes) = 1
    /\ pc = "returned"

\* ------------------------------------------------------------------------
\* Properties of stage failures
\* ------------------------------------------------------------------------

\* the conversion of the current call returned no PNG frame
ConversionFailed ==
    Report("WARNING", "PNG conversion failed, falling back to original EXR frames")
        \in reports

\* frame discovery of the current call returned nothing
DiscoveryEmpty == "find_frames" \in Stages /\ original_frames = <<>>

\* staging of the current call produced zero frames
StagedNothing == "prepare" \in Stages /\ total_frames = 0 /\ copies = <<>>

\* the current call returned without running the encoder, with failure
StoppedWithFailure == encodes = <<>> /\ ret = FALSE

\* The statement as claimed: a failed conversion stops the channel like the
\* other stage failures.  It does not hold: see C14_StageFailureStops.
C14_AnyStageFailureStops ==
    (pc = "returned" /\ (DiscoveryEmpty \/ ConversionFailed \/ StagedNothing))
        => StoppedWithFailure

\* C14: if frame discovery returns nothing or staging produces zero frames,
\* the channel stops there, the encoder is not invoked and the channel
\* result is failure; if the conversion returns no PNG frame the channel
\* goes on with the original frames: they are the frames that are staged
\* and the encoder is invoked once on them.
C14_StageFailureStops ==
    /\ (pc = "returned" /\ (DiscoveryEmpty \/ StagedNothing)) => StoppedWithFailure
    /\ ConversionFailed =>
        /\ frames = original_frames
        /\ pc = "returned" => (Len(encodes) = 1 /\ "prepare" \in Stages)

\* a call whose conversion returned nothing and whose encoder then
\* succeeded on the original frames
C14_Witness ==
    /\ pc = "returned"
    /\ ConversionFailed
    /\ Len(encodes) = 1
    /\ ret = TRUE

\* ------------------------------------------------------------------------
\* Properties of the quality parameters
\* ------------------------------------------------------------------------

\* the text of a CRF value on the command line
CrfArg(k) ==
    CASE k = 18 -> "18" [] k = 23 -> "23" [] k = 28 -> "28" [] k = 30 -> "30"

\* C15: when the caller supplies a CRF override (custom_crf of the
\* mobile-only and desktop-only operators, passed as the crf argument), the
\* CRF on the encoder's command line is that override.
C15_CrfOverride ==
    (op \in {"render_mobile", "render_desktop"}) =>
        \A i \in 1..Len(encodes) : encodes[i].cmd.crf = CrfArg(call.crf)

\* ------------------------------------------------------------------------
\* Properties of encoder discovery
\* ------------------------------------------------------------------------

\* the direct paths of the platform, as a set
DirectPaths == { ffmpeg_paths(platform)[i] : i \in 1..Len(ffmpeg_paths(platform)) }

\* the position of a direct path in the list of the platform
DirectIndex(p) == CHOOSE i \in 1..Len(ffmpeg_paths(platform)) : ffmpeg_paths(platform)[i] = p

\* the strategy a probe belongs to: 1 direct path, 2 PATH, 3 'which'
StrategyOf(probe) ==
    IF probe.cmd[1] \in DirectPaths THEN 1
    ELSE IF probe.cmd = <<"ffmpeg", "-version">> THEN 2
    ELSE 3

\* the strategies discovery tried
StrategiesTried == { StrategyOf(probes[i]) : i \in 1..Len(probes) }

\* the probes ran in the order direct paths (in list order), PATH, 'which'
ProbesInOrder ==
    \A i, j \in 1..Len(probes) : i < j =>
        /\ StrategyOf(probes[i]) <= StrategyOf(probes[j])
        /\ (StrategyOf(probes[i]) = 1 /\ StrategyOf(probes[j]) = 1) =>
               DirectIndex(probes[i].cmd[1]) < DirectIndex(probes[j].cmd[1])

\* the location selected is the one of the first version check that
\* succeeded, which is the last probe run
FirstWorkingSelected ==
    /\ probes # <<>>
    /\ probes[Len(probes)].outcome = "ok"
    /\ probes[Len(probes)].cmd = <<ffmpeg_path, "-version">>
    /\ \A i \in 1..(Len(probes) - 1) : probes[i].outcome # "ok"

\* C16: discovery tries the direct paths, then PATH, then 'which', in this
\* order; the location selected is the first whose version check succeeds,
\* never one whose version check fails; and not-found is reported only
\* after all three strategies were tried and failed.
C16_DiscoveryOrder ==
    (pc = "discovery_done") =>
        /\ ProbesInOrder
        /\ ret = TRUE => FirstWorkingSelected
        /\ ret = FALSE =>
            /\ \A i \in 1..Len(probes) : probes[i].outcome # "ok"
            /\ {2, 3} \subseteq StrategiesTried

\* a call of create_video_with_ffmpeg starts while a location resolved by an
\* earlier call of the same run is stored in self.ffmpeg_path
CachedAtCallStart == pc = "check_ffmpeg" /\ ffmpeg_path # ""

\* C17: once discovery has succeeded in a run the location is cached: a
\* later channel run of the same 'render all' runs no discovery probe and
\* goes on with the cached location.
C17_CachedLocationReused ==
    [][CachedAtCallStart =>
          (probes' = <<>> /\ ffmpeg_path' = ffmpeg_path /\ pc' = "find_frames")]_vars

\* ------------------------------------------------------------------------
\* Properties of the result of the encoder
\* ------------------------------------------------------------------------

\* the outcome of the encoder subprocess of the current call
EncodeOutcome == encodes[Len(encodes)].outcome

\* the current call ran the encoder and returned
EncodedAndReturned == pc = "returned" /\ encodes # <<>>

MissingOutputWarning ==
    Report("WARNING", "FFmpeg reported success but output file not found")

\* C18: when the encoder exits with code 0 the channel result is success
\* whether or not the output file exists; a missing output file produces a
\* warning and no error.
C18_MissingOutputWarns ==
    (EncodedAndReturned /\ EncodeOutcome \in {"exit0_file", "exit0_nofile"}) =>
        /\ ret = TRUE
        /\ \A r \in reports : r.level # "ERROR"
        /\ (MissingOutputWarning \in reports) <=> (EncodeOutcome = "exit0_nofile")

C18_Witness ==
    /\ EncodedAndReturned
    /\ EncodeOutcome = "exit0_nofile"
    /\ ret = TRUE
    /\ MissingOutputWarning \in reports

\* C19: the encode subprocess is started at most once per channel run; when
\* it exits with a nonzero code or cannot be run, the channel result is
\* failure and there is no second attempt.
C19_NoRetry ==
    /\ Len(encodes) <= 1
    /\ (EncodedAndReturned /\ EncodeOutcome \in {"exit_nonzero", "raises"}) =>
        /\ ret = FALSE
        /\ Len(encodes) = 1
        /\ \E r \in reports : r.level = "ERROR"

C19_Witness ==
    /\ EncodedAndReturned
    /\ EncodeOutcome = "exit_nonzero"
    /\ Len(encodes) = 1
    /\ ret = FALSE

C19_WitnessRaises ==
    /\ EncodedAndReturned
    /\ EncodeOutcome = "raises"
    /\ Len(encodes) = 1
    /\ ret = FALSE

\* ------------------------------------------------------------------------
\* Properties of the frame index
\* ------------------------------------------------------------------------

\* the position of the last '_<digits>.' of a name
LastMatchPos(name) ==
    CHOOSE i \in MatchPositions(name) : \A j \in MatchPositions(name) : j <= i

\* the index read from the last '_<digits>.' of a name, 0 when there is none
LastIndex(name) ==
    IF MatchPositions(name) = {} THEN 0
    ELSE ParseInt(SubSeq(name, LastMatchPos(name) + 1,
                         DigitRunEnd(name, LastMatchPos(name) + 1)))

\* C20: the frame index of a file is parsed from the LAST '_<digits>.' of
\* its name: for every frame find_frames returns, the sort key is the
\* number of the rightmost occurrence.
C20_IndexFromLastMatch ==
    FramesReturned =>
        \A i \in 1..Len(original_frames) :
            get_frame_number(original_frames[i])
                = LastIndex(basename(original_frames[i]))

\* ------------------------------------------------------------------------
\* Properties of find_frames: fallback index and ties
\* ------------------------------------------------------------------------

\* the index the sort gives a name: the number of its '_<digits>.', 0 when
\* it has none
SortIndex(name) ==
    IF MatchPositions(name) = {} THEN 0 ELSE ParseInt(FrameNumStr(name))

\* the pattern that collects a name: the position of its extension in the
\* patterns list
PatternOf(name) ==
    CHOOSE k \in 1..Len(Extensions) : EndsWith(name, <<".">> \o Extensions[k])

\* the position of a name in the listing of the frames directory
ListingPos(name) ==
    CHOOSE i \in 1..Len(frames_dir.listing) : frames_dir.listing[i] = name

\* name a was collected before name b: by an earlier pattern, or by the same
\* pattern and earlier in the listing
CollectedBefore(a, b) ==
    \/ PatternOf(a) < PatternOf(b)
    \/ PatternOf(a) = PatternOf(b) /\ ListingPos(a) < ListingPos(b)

\* matching files without a parseable index
Unparseable(dir, base) == { n \in MatchingFiles(dir, base) : MatchPositions(n) = {} }

\* C21: a file that matches the glob but has no parseable index is still in
\* the result of find_frames, with index 0, and frames of equal index are in
\* the order in which they were collected (pattern order, then listing
\* order): the sort is stable.
C21_FallbackAndStableSort ==
    (FramesReturned /\ frames_dir.exists) =>
        /\ { original_frames[i].name : i \in 1..Len(original_frames) }
              = MatchingFiles(frames_dir, blend_filename)
        /\ Len(original_frames) = Cardinality(MatchingFiles(frames_dir, blend_filename))
        /\ \A i, j \in 1..Len(original_frames) : i < j =>
              \/ SortIndex(original_frames[i].name) < SortIndex(original_frames[j].name)
              \/ /\ SortIndex(original_frames[i].name) = SortIndex(original_frames[j].name)
                 /\ CollectedBefore(original_frames[i].name, original_frames[j].name)

\* two files without index and a numbered one, listed in the order that is
\* not the order of the result
C21_Witness ==
    /\ FramesReturned
    /\ Cardinality(Unparseable(frames_dir, blend_filename)) = 2
    /\ Len(original_frames) = 3
    /\ frames_dir.listing[1] = original_frames[3].name
    /\ frames_dir.listing[2] = original_frames[2].name
    /\ SortIndex(original_frames[1].name) = 0
    /\ SortIndex(original_frames[2].name) = 0

\* three files of equal index collected by one pattern
C21_WitnessTies ==
    /\ FramesReturned
    /\ Len(original_frames) = 3
    /\ \A i \in 1..3 : SortIndex(original_frames[i].name) = 1
    /\ \A i \in 1..3 : PatternOf(original_frames[i].name) = 1

\* ------------------------------------------------------------------------
\* Properties of the extension of the staged files
\* ------------------------------------------------------------------------

\* the extension of a file name, with its dot
ExtOf(name) == splitext(name)[2]

\* C22: every staged file keeps the file extension of its own source frame:
\* staged file i has the extension of input frame i, also when the input
\* mixes extensions.
C22_OwnExtensionKept ==
    FramesStaged =>
        \A n \in DOMAIN temp_dir.files : ExtOf(n) = ExtOf(temp_dir.files[n].name)

\* ------------------------------------------------------------------------
\* Properties of the trigger of the conversion
\* ------------------------------------------------------------------------

ExrExt == <<".","e","x","r">>

\* the current call is past frame discovery and found frames
FramesDiscovered == "find_frames" \in Stages /\ original_frames # <<>>

\* the discovered frames are EXR files, all of them
AllExr == \A i \in 1..Len(original_frames) : ExtOf(basename(original_frames[i])) = ExrExt

\* C23: the converter runs only when the discovered frames are EXR files:
\* no frame that is not an EXR file is passed through the conversion, and
\* when the discovered frames are not EXR the converter does not run and the
\* originals are the frames that are staged.
C23_OnlyExrConverted ==
    /\ \A i \in 1..Len(conversions) : ExtOf(basename(conversions[i])) = ExrExt
    /\ (FramesDiscovered /\ "convert" \in Stages) => AllExr
    /\ (FramesDiscovered /\ ~AllExr /\ pc \in {"tempdir", "prepare", "encode", "returned"})
           => frames = original_frames

\* ------------------------------------------------------------------------
\* Properties of convert_exr_to_png
\* ------------------------------------------------------------------------

\* the frame has an index the converter can read
Parseable(frame) == MatchPositions(basename(frame)) # {}

\* the name of the PNG file the converter writes for a frame
PngOf(frame) == PngPath(blend_filename, FrameNumStr(basename(frame))).name

\* the elements of a sequence, as a set
Range(s) == { s[i] : i \in 1..Len(s) }

\* a call of the converter skips the frames whose PNG file existed when it
\* started: they are not converted and their PNG is in the returned list.
\* found: the frames of the call, before: the PNG files when it started
SkipsExisting(found, before, converted, returned) ==
    \A i \in 1..Len(found) :
        (Parseable(found[i]) /\ PngOf(found[i]) \in before) =>
            /\ found[i] \notin Range(converted)
            /\ \E k \in 1..Len(returned) : returned[k].name = PngOf(found[i])

\* the step is the second call of the converter on the directory
SecondRun == pc = "converted" /\ pc' = "converted_again"

\* C24: the conversion is idempotent and resumable: a frame whose output PNG
\* already exists is not converted again but is still in the returned
\* sequence, and a second run of the converter on the same directory
\* performs zero conversions and returns the same sequence as the first run.
C24_Idempotent ==
    /\ [][(pc \in {"convert_call", "converted"} /\ pc' # pc) =>
            SkipsExisting(original_frames', png_dir, conversions', frames')]_vars
    /\ [][SecondRun => (conversions' = <<>> /\ frames' = frames)]_vars

\* frame i of the call is in the returned list: it has an index, and its
\* PNG existed when the call started or was saved by the call for it or for
\* an earlier frame
Included(found, before, outcome, i) ==
    /\ Parseable(found[i])
    /\ \/ PngOf(found[i]) \in before
       \/ \E j \in 1..i : /\ Parseable(found[j])
                          /\ PngOf(found[j]) = PngOf(found[i])
                          /\ outcome[j] = "ok"

\* the PNG paths of the included frames, in the order of the input
RECURSIVE ExpectedReturn(_, _, _, _)
ExpectedReturn(found, before, outcome, n) ==
    IF n = 0 THEN <<>>
    ELSE ExpectedReturn(found, before, outcome, n - 1)
         \o (IF Included(found, before, outcome, n)
             THEN <<[dir |-> "png_temp", name |-> PngOf(found[n])]>> ELSE <<>>)

\* C25: a load or save failure on one frame skips only that frame: the
\* later frames are still processed, and the returned sequence is exactly
\* the frames that were converted or whose PNG existed, in the order of the
\* input.
C25_FailureIsolated ==
    [][(pc \in {"convert_call", "converted"} /\ pc' # pc) =>
          frames' = ExpectedReturn(original_frames', png_dir,
                                   OutcomeOf(frames_dir, original_frames'),
                                   Len(original_frames'))]_vars

\* a run whose first frame could not be loaded and whose later frames were
\* converted
C25_Witness ==
    /\ pc = "converted"
    /\ Len(original_frames) = 3
    /\ Parseable(original_frames[1])
    /\ frames_dir.outcome[basename(original_frames[1])] = "load_error"
    /\ Len(conversions) = 2
    /\ Len(frames) = 2

\* ------------------------------------------------------------------------
\* Properties of missing inputs
\* ------------------------------------------------------------------------

\* the frames directory of the current call does not exist
FramesDirMissing == "find_frames" \in Stages /\ ~frames_dir.exists

\* the mobile call of render_all returned
MobileReturned == op = "render_all" /\ chan = "mobile" /\ pc = "returned"

\* the step makes the desktop call with the result of the mobile call kept
DesktopCalled ==
    /\ chan' = "desktop"
    /\ pc' = "check_ffmpeg"
    /\ results' = <<[channel |-> "mobile", success |-> ret]>>

\* The statement as claimed: whatever input is missing, the save location
\* included, both channels of a 'render all' run that ends without an
\* exception were processed.  It does not hold: see C26_MissingFramesDir.
C26_MissingInputChannelOnly ==
    (op = "render_all" /\ pc = "done" /\ result # "RAISED") =>
        /\ Len(results) = 2
        /\ results[1].channel = "mobile"
        /\ results[2].channel = "desktop"

\* C26: a missing frames directory is fatal to the affected channel only:
\* the channel returns failure without staging or encoding and the other
\* channel of the same 'render all' run is still processed; a missing save
\* location (the file was never saved) cancels the whole run before any
\* channel is processed.
C26_MissingFramesDir ==
    /\ [](FramesDirMissing =>
            (pc \in {"returned", "done"} /\ ret = FALSE /\ encodes = <<>>
             /\ copies = <<>>))
    /\ [][(MobileReturned /\ FramesDirMissing) => DesktopCalled]_vars
    /\ []((pc = "done" /\ op = "render_all" /\ FramesDirMissing /\ result # "RAISED")
            => (chan = "desktop" /\ Len(results) = 2
                /\ (result = "FINISHED" <=> results[1].success)))
    /\ []((pc = "done" /\ blend_filepath = <<>>) =>
            (result = "CANCELLED" /\ results = <<>> /\ chan = ""))

\* the desktop directory is missing after the mobile channel succeeded: the
\* run is finished with the mobile result standing
C26_Witness ==
    /\ op = "render_all"
    /\ pc = "done"
    /\ chan = "desktop"
    /\ FramesDirMissing
    /\ results = <<[channel |-> "mobile", success |-> TRUE],
                   [channel |-> "desktop", success |-> FALSE]>>
    /\ result = "FINISHED"

\* ------------------------------------------------------------------------
\* Properties of the fallback to the original frames
\* ------------------------------------------------------------------------

\* the sources of the copies into the staging directory, in order
StagedSources == [i \in 1..Len(copies) |-> copies[i].src]

\* C27: when the discovered frames are EXR and the conversion returns no
\* converted frame, the channel run does not stop: the original EXR frames
\* are the frames that are staged and the encoder is invoked on the staged
\* EXR files.
C27_FallbackToExr ==
    ConversionFailed =>
        /\ is_exr(original_frames)
        /\ pc \in {"tempdir", "prepare", "encode", "returned", "done"}
        /\ frames = original_frames
        /\ pc \in {"encode", "returned"} =>
              /\ total_frames >= 1
              /\ \A i \in 1..Len(copies) : copies[i].src \in Range(original_frames)
              /\ StagedSources[1] = original_frames[1]
        /\ pc = "returned" =>
              /\ Len(encodes) = 1
              /\ EndsWith(encodes[1].cmd.input.name, ExrExt)

C27_Witness ==
    /\ ConversionFailed
    /\ pc = "returned"
    /\ Len(encodes) = 1
    /\ EndsWith(encodes[1].cmd.input.name, ExrExt)
    /\ encodes[1].outcome = "exit0_file"
    /\ Len(original_frames) = 2

\* ------------------------------------------------------------------------
\* Properties of the process queue
\* ------------------------------------------------------------------------

\* a step of process_file
ProcessFileStep == pc = "queue_iter" /\ pending' # pending

\* a step of get_pending_files in run
PollStep == pc = "queue_poll" /\ pc' # "queue_poll"

\* the run of the file failed: nonzero exit or exception inside the run
FailedRun == {"exit_nonzero", "run_raises", "exit0_copy_raises"}

\* C28: a file is added to processed_files only by a process_file call whose
\* Blender subprocess exited with code 0; a file whose latest run failed
\* (nonzero exit or exception inside the run) is not in processed_files, and
\* every later poll of get_pending_files returns it again
C28_MarkedOnlyAfterExitZero ==
    /\ [][\A f \in QueueFiles :
            (pc # "queue_start" /\ f \in processed_files' /\ f \notin processed_files)
              => (ProcessFileStep /\ f = Head(pending) /\ last_outcome'[f] = "exit0")]_vars
    /\ [](\A f \in QueueFiles :
            last_outcome[f] \in FailedRun => f \notin processed_files)
    /\ [][PollStep =>
            \A f \in QueueFiles :
               last_outcome[f] \in FailedRun
                 => \E i \in 1..Len(pending') : pending'[i] = f]_vars

\* a file whose run failed is pending again after a later poll, next to a
\* file that was marked processed after exit code 0
C28_Witness ==
    /\ pc = "queue_iter"
    /\ last_outcome[Head(pending)] \in FailedRun
    /\ Head(pending) \notin processed_files
    /\ \E g \in processed_files : last_outcome[g] = "exit0"

\* C29: whenever process_file is not executing, processing_files is empty
C29_ProcessingEmpty ==
    pc \in {"queue_poll", "queue_iter", "queue_sleep", "queue_raising",
            "queue_exited"} => processing_files = {}

\* C30: a file that was marked processed is never processed again:
\* get_pending_files never returns a member of processed_files,
\* processed_files only grows within a process, every file ever marked is in
\* processed_files while the queue polls and processes, also after a
\* restart, and process_file is never called on a marked file
C30_NeverProcessedAgain ==
    /\ [](get_pending_files \cap processed_files = {})
    /\ [][pc # "queue_start" => processed_files \subseteq processed_files']_vars
    /\ [](pc \in {"queue_poll", "queue_iter", "queue_sleep"}
            => marked \subseteq processed_files)
    /\ [][ProcessFileStep => Head(pending) \notin marked]_vars

====
